---- MODULE Spec2Model ----
(***************************************************************************)
(* serverless-webpack-prisma: the plugin class ServerlessWebpackPrisma of  *)
(* src/src/index.ts as a state machine.  The state is the host's service   *)
(* descriptor (read-only during a run), the file system of the packaging   *)
(* units, and the position of the hook onBeforeWebpackPackage in its loop. *)
(***************************************************************************)
EXTENDS Integers, Sequences, FiniteSets, TLC

VARIABLES
  serverless,   \* the host's service descriptor (this.serverless), read-only
  fs,           \* the file system: unit directory -> its content
  pc,           \* the position of the running method
  functions,    \* the units returned by getFunctionNames for this run
  idx,          \* index in functions of the unit being processed
  trace,        \* the calls and side effects of the current run, in order
  err,          \* the exception that ended the run, or NoError
  runs          \* how many times the hook (or the method under test) has run

vars == <<serverless, fs, pc, functions, idx, trace, err, runs>>

----------------------------------------------------------------------------
(* Values.  An optional value (a property that may be undefined) is a      *)
(* sequence of length 0 or 1.  A string that the code searches or matches  *)
(* is a sequence of characters; other strings are atoms.                   *)

None == <<>>

Some(v) == <<v>>

\* lodash get(object, path, defaultValue): the default for an undefined value
Get(o, default) == IF o = None THEN default ELSE o[1]

IsPrefix(p, s) == Len(p) <= Len(s) /\ SubSeq(s, 1, Len(p)) = p

\* String.prototype.match with a literal pattern: a substring search
Contains(s, sub) ==
  \E i \in 1..(Len(s) - Len(sub) + 1) : SubSeq(s, i, i + Len(sub) - 1) = sub

EmptyStr == <<>>

StrNode == <<"n", "o", "d", "e">>

StrNodejs == StrNode \o <<"j", "s", "1", "8">>

StrPython == <<"p", "y", "t", "h", "o", "n", "3">>

----------------------------------------------------------------------------
(* Configuration accessors                                                 *)

\* getArchitectures: the architecture mapping, as a set of pairs
getArchitectures ==
  { <<"arm64", <<"l", "i", "n", "u", "x", "-", "a", "r", "m", "6", "4">> >>,
    <<"x86_64", <<"r", "h", "e", "l">> >> }

getArchitecture(sls) == Get(sls.architecture, "x86_64")

getPackageManager(sls) == Get(sls.packager, "npm")

getPrismaVersion(sls) == Get(sls.version, "")

getInstallDeps(sls) == Get(sls.installDeps, TRUE)

getUseSymlink(sls) == Get(sls.useSymLinkForPrisma, FALSE)

getPrismaPath(sls) == Get(sls.prismaPath, sls.servicePath)

getWebpackOutputPath(sls) == Get(sls.webpackOutputPath, sls.servicePath)

getIgnoredFunctions(sls) == Get(sls.ignoreFunctions, <<>>)

getProviderRuntime(sls) == sls.runtime

----------------------------------------------------------------------------
(* Function Selector                                                       *)

\* a test of the image reference's truthiness instead of its presence
isFunctionImage_Truthy(func) == func.image # None /\ func.image[1] # ""

\* !isUndefined(func.image): the presence of the field, whatever its value
isFunctionImage(func) == func.image # None

\* includes(ignoredFunctions, funcName)
isFunctionIgnored(sls, funcName) ==
  \E i \in 1..Len(getIgnoredFunctions(sls)) : getIgnoredFunctions(sls)[i] = funcName

\* get(func, 'handler.runtime', ''): the property `runtime` of the value of
\* `handler`.  A handler is a string, which has no such property (the record
\* of a handler keeps it as None), so the lookup yields the default; the
\* function's own `runtime` field is not on this path
GetHandlerRuntime(func) ==
  IF func.handler = None THEN EmptyStr
  ELSE Get(func.handler[1].runtime, EmptyStr)

\* this.getProviderRuntime() || 'node': undefined and '' are falsy
ProviderRuntimeOrNode(sls) ==
  IF getProviderRuntime(sls) = None \/ getProviderRuntime(sls)[1] = EmptyStr
  THEN StrNode
  ELSE getProviderRuntime(sls)[1]

isRuntimeNode(sls, func) ==
  \/ Contains(GetHandlerRuntime(func), StrNode)
  \/ Contains(ProviderRuntimeOrNode(sls), StrNode)

\* this.serverless.service.getFunction(funcName)
getFunction(sls, funcName) == sls.functionDefs[funcName]

NodeFunctionFilter(sls, funcName) ==
  IF isFunctionImage(getFunction(sls, funcName)) THEN FALSE
  ELSE IF ~isRuntimeNode(sls, getFunction(sls, funcName)) THEN FALSE
  ELSE IF isFunctionIgnored(sls, funcName) THEN FALSE
  ELSE TRUE

\* the selection returned in the reverse of the registry's order
getNodeFunctions_Reversed(sls) ==
  LET selected == SelectSeq(sls.allFunctions,
                            LAMBDA funcName : NodeFunctionFilter(sls, funcName))
  IN  [i \in 1..Len(selected) |-> selected[Len(selected) + 1 - i]]

getNodeFunctions(sls) ==
  SelectSeq(sls.allFunctions, LAMBDA funcName : NodeFunctionFilter(sls, funcName))

\* per-function packaging taken as the default
getFunctionNames_DefaultIndividually(sls) ==
  IF Get(sls.individually, TRUE) THEN getNodeFunctions(sls) ELSE <<"service">>

\* packageIndividually ? this.getNodeFunctions() : ['service']
getFunctionNames(sls) ==
  IF Get(sls.individually, FALSE) THEN getNodeFunctions(sls) ELSE <<"service">>

----------------------------------------------------------------------------
(* JSON documents.  A value is a string or an object; an object is the     *)
(* sequence of its entries in insertion order, as a JavaScript object      *)
(* keeps them.  A file's text is the document plus its indentation.        *)

Str(x) == [t |-> "str", s |-> x, o |-> <<>>]

Obj(entries) == [t |-> "obj", s |-> "", o |-> entries]

HasKey(o, key) == \E i \in 1..Len(o) : o[i].k = key

KeyIndex(o, key) == CHOOSE i \in 1..Len(o) : o[i].k = key

ObjGet(o, key) == IF HasKey(o, key) THEN Some(o[KeyIndex(o, key)].v) ELSE None

\* object[key] = value: in place for an existing key, appended for a new one
ObjPut(o, key, value) ==
  IF HasKey(o, key)
  THEN [o EXCEPT ![KeyIndex(o, key)] = [k |-> key, v |-> value]]
  ELSE Append(o, [k |-> key, v |-> value])

\* delete object[key]
ObjDelete(o, key) == SelectSeq(o, LAMBDA e : e.k # key)

IsObject(opt) == opt # None /\ opt[1].t = "obj"

\* lodash set(object, 'k1.k2', value): an intermediate value that is not an
\* object is replaced by a new object
LodashSet(o, k1, k2, value) ==
  LET inner == IF IsObject(ObjGet(o, k1)) THEN ObjGet(o, k1)[1].o ELSE <<>>
  IN  ObjPut(o, k1, Obj(ObjPut(inner, k2, value)))

\* lodash unset(object, 'k1.k2'): nothing to do when the parent is missing
LodashUnset(o, k1, k2) ==
  IF IsObject(ObjGet(o, k1))
  THEN ObjPut(o, k1, Obj(ObjDelete(ObjGet(o, k1)[1].o, k2)))
  ELSE o

\* JSON.parse(contents): the document, its layout forgotten
JSONparse(text) == text.json

\* JSON.stringify(value, null, indent)
JSONstringify(value, indent) == [indent |-> indent, json |-> value]

----------------------------------------------------------------------------
(* Package-Script Manager                                                  *)

ScriptsKey == "scripts"

GenerateKey == "prisma:generate"

GenerateCommand == "prisma generate"

\* 'remove' emptying the whole scripts table
managePackageScriptsText_UnsetTable(action, contents) ==
  LET parsed  == JSONparse(contents)
      updated == IF action = "add"
                 THEN LodashSet(parsed, ScriptsKey, GenerateKey, Str(GenerateCommand))
                 ELSE ObjPut(parsed, ScriptsKey, Obj(<<>>))
  IN  JSONstringify(updated, 2)

\* 'remove' blanking the entry instead of unsetting it
managePackageScriptsText_BlankEntry(action, contents) ==
  LET parsed  == JSONparse(contents)
      updated == IF action = "add"
                 THEN LodashSet(parsed, ScriptsKey, GenerateKey, Str(GenerateCommand))
                 ELSE LodashSet(parsed, ScriptsKey, GenerateKey, Str(""))
  IN  JSONstringify(updated, 2)

\* the new text of package.json: parse, set or unset the entry, serialize
managePackageScriptsText(action, contents) ==
  LET parsed  == JSONparse(contents)
      updated == IF action = "add"
                 THEN LodashSet(parsed, ScriptsKey, GenerateKey, Str(GenerateCommand))
                 ELSE LodashUnset(parsed, ScriptsKey, GenerateKey)
  IN  JSONstringify(updated, 2)

----------------------------------------------------------------------------
(* Paths and command lines.  A path is the sequence of its segments; a     *)
(* command line is the sequence of its words and separators.               *)

\* path.join(dir, segment)
join(dir, segment) == Append(dir, segment)

RECURSIVE CommonPrefixLen(_, _)
CommonPrefixLen(a, b) ==
  IF a = <<>> \/ b = <<>> \/ Head(a) # Head(b) THEN 0
  ELSE 1 + CommonPrefixLen(Tail(a), Tail(b))

\* path.relative(from, to)
relative(from, to) ==
  LET k == CommonPrefixLen(from, to)
  IN  [i \in 1..(Len(from) - k) |-> ".."] \o SubSeq(to, k + 1, Len(to))

\* Array.prototype.join(separator) on strings kept as sequences of pieces
RECURSIVE JoinStrings(_, _)
JoinStrings(strs, sep) ==
  IF strs = <<>> THEN <<>>
  ELSE IF Len(strs) = 1 THEN strs[1]
  ELSE strs[1] \o <<sep>> \o JoinStrings(Tail(strs), sep)

\* runCommand: const cmd = [command, args.join(' ')].join(' ')
CommandLine(command, args) ==
  JoinStrings(<< <<command>>, JoinStrings(args, " ") >>, " ")

----------------------------------------------------------------------------
(* Engine files and the Engine Glob Set                                    *)

StrEngine == <<"e", "n", "g", "i", "n", "e">>

StrLibquery == <<"l", "i", "b", "q", "u", "e", "r", "y", "_">> \o StrEngine

StrMigration == <<"m", "i", "g", "r", "a", "t", "i", "o", "n", "-">> \o StrEngine

StrPrismaFmt == <<"p", "r", "i", "s", "m", "a", "-", "f", "m", "t">>

StrIntrospection ==
  <<"i", "n", "t", "r", "o", "s", "p", "e", "c", "t", "i", "o", "n", "-">> \o StrEngine

StrSchemaEngine == <<"s", "c", "h", "e", "m", "a", "-">> \o StrEngine

StrQueryEngine == <<"q", "u", "e", "r", "y", "-">> \o StrEngine

StrUndefined == <<"u", "n", "d", "e", "f", "i", "n", "e", "d">>

DirClient == ".prisma/client"

DirPrisma == "prisma"

DirEngines == "@prisma/engines"

\* this.getArchitectures()[this.getArchitecture()]: undefined without an entry
ArchitecturePrefix(sls) ==
  LET hits == { p \in getArchitectures : p[1] = getArchitecture(sls) }
  IN  IF hits = {} THEN None ELSE Some((CHOOSE p \in hits : TRUE)[2])

\* `${prefix}` in a template literal: String(undefined) is 'undefined'
Interpolate(opt) == IF opt = None THEN StrUndefined ELSE opt[1]

\* 'node_modules/<dir>/<name>*' and its negation '!node_modules/<dir>/<name>-<prefix>*'
Include(dir, name) == [neg |-> FALSE, dir |-> dir, prefix |-> name]

Exclude(dir, name, prefix) ==
  [neg |-> TRUE, dir |-> dir, prefix |-> name \o <<"-">> \o prefix]

\* the glob set with the exclusion of the tool's own directory dropped
getPrismaEngines_NoPrismaExclude(sls) ==
  LET prefix == Interpolate(ArchitecturePrefix(sls))
  IN  << Include(DirClient, StrLibquery),
         Exclude(DirClient, StrLibquery, prefix),
         Include(DirPrisma, StrLibquery),
         Include(DirEngines, StrLibquery),
         Exclude(DirEngines, StrLibquery, prefix),
         Include(DirEngines, StrMigration),
         Exclude(DirEngines, StrMigration, prefix),
         Include(DirEngines, StrPrismaFmt),
         Exclude(DirEngines, StrPrismaFmt, prefix),
         Include(DirEngines, StrIntrospection),
         Exclude(DirEngines, StrIntrospection, prefix),
         Include(DirEngines, StrSchemaEngine),
         Exclude(DirEngines, StrSchemaEngine, prefix) >>

getPrismaEngines(sls) ==
  LET prefix == Interpolate(ArchitecturePrefix(sls))
  IN  << Include(DirClient, StrLibquery),
         Exclude(DirClient, StrLibquery, prefix),
         Include(DirPrisma, StrLibquery),
         Exclude(DirPrisma, StrLibquery, prefix),
         Include(DirEngines, StrLibquery),
         Exclude(DirEngines, StrLibquery, prefix),
         Include(DirEngines, StrMigration),
         Exclude(DirEngines, StrMigration, prefix),
         Include(DirEngines, StrPrismaFmt),
         Exclude(DirEngines, StrPrismaFmt, prefix),
         Include(DirEngines, StrIntrospection),
         Exclude(DirEngines, StrIntrospection, prefix),
         Include(DirEngines, StrSchemaEngine),
         Exclude(DirEngines, StrSchemaEngine, prefix) >>

\* a pattern 'node_modules/<dir>/<prefix>*' against a file of node_modules:
\* the directory literally, the name by its beginning ('*' spans no '/')
GlobMatches(pattern, file) ==
  file.dir = pattern.dir /\ IsPrefix(pattern.prefix, file.name)

\* fast-glob: the files some positive pattern matches and no negative one does
globSync(patterns, files) ==
  { f \in files :
      /\ \E i \in 1..Len(patterns) :
           ~patterns[i].neg /\ GlobMatches(patterns[i], f)
      /\ ~\E i \in 1..Len(patterns) :
           patterns[i].neg /\ GlobMatches(patterns[i], f) }

\* the matches as the array the loop walks, in some fixed order
RECURSIVE SetToSeq(_)
SetToSeq(S) ==
  IF S = {} THEN <<>>
  ELSE LET x == CHOOSE x \in S : TRUE IN <<x>> \o SetToSeq(S \ {x})

----------------------------------------------------------------------------
(* The file system and the effects of the plugin's methods.  A method's    *)
(* effect is a function of the machine m = [fs, trace, err]: an exception  *)
(* sets err, and nothing after it in the method runs.                      *)

NoError == "none"

Ev(op, cwd, arg) == [op |-> op, cwd |-> cwd, arg |-> arg]

Emit(m, op, cwd, arg) == [m EXCEPT !.trace = Append(@, Ev(op, cwd, arg))]

Throw(m, e) == [m EXCEPT !.err = e]

\* this.log(message)
Log(m, cwd, message) == Emit(m, "log", cwd, <<message>>)

AbsentDir == [kind |-> "absent", schema |-> FALSE, target |-> <<>>]

\* a unit directory as the bundler leaves it
UnitContent(manifest) ==
  [manifest |-> manifest, prisma |-> AbsentDir, binPrisma |-> FALSE,
   modPrisma |-> FALSE, engines |-> {}, client |-> FALSE]

\* managePackageScripts(action, cwd)
managePackageScripts(m, action, cwd) ==
  IF m.err # NoError THEN m
  ELSE IF m.fs.units[cwd].manifest = None
  THEN Throw(m, "ENOENT")                              \* readFileSync throws
  ELSE Emit([m EXCEPT !.fs.units[cwd].manifest =
                        Some(managePackageScriptsText(action, @[1]))],
            "writeFileSync", cwd, <<"package.json">>)

EngineName(kind, platform) ==
  kind \o <<"-">> \o platform \o <<"-", "o", "p", "e", "n", "s", "s", "l">>

PlatformRhel == <<"r", "h", "e", "l">>

PlatformArm == <<"l", "i", "n", "u", "x", "-", "a", "r", "m", "6", "4">>

PlatformDebian == <<"d", "e", "b", "i", "a", "n">>

EngineFile(dir, kind, platform) == [dir |-> dir, name |-> EngineName(kind, platform)]

\* what `<packager> install -D prisma` unpacks: the tool with the engines of
\* the build host
InstalledEngines ==
  { EngineFile(DirPrisma, StrLibquery, PlatformDebian),
    EngineFile(DirEngines, StrLibquery, PlatformDebian),
    EngineFile(DirEngines, StrSchemaEngine, PlatformDebian) }

\* what `prisma generate` writes beside the client: one engine per target
GeneratedEngines ==
  { EngineFile(DirClient, StrLibquery, pl) :
      pl \in {PlatformRhel, PlatformArm, PlatformDebian} }

HasGenerateScript(unit) ==
  /\ unit.manifest # None
  /\ IsObject(ObjGet(JSONparse(unit.manifest[1]), ScriptsKey))
  /\ HasKey(ObjGet(JSONparse(unit.manifest[1]), ScriptsKey)[1].o, GenerateKey)

SchemaInPlace(fsys, cwd) ==
  \/ fsys.units[cwd].prisma.kind = "dir" /\ fsys.units[cwd].prisma.schema
  \/ fsys.units[cwd].prisma.kind = "symlink" /\ fsys.schemaSource

\* whether the external command can exit with status 0 in this directory:
\* the script run needs its entry in the manifest and a schema to read
CanSucceed(fsys, cwd, cmd) ==
  cmd[3] = "run" => HasGenerateScript(fsys.units[cwd]) /\ SchemaInPlace(fsys, cwd)

\* what the external command leaves in its working directory when it succeeds
ExecEffect(unit, cmd) ==
  IF cmd[3] = "install"
  THEN [unit EXCEPT !.binPrisma = TRUE, !.modPrisma = TRUE,
                    !.engines = @ \cup InstalledEngines]
  ELSE IF cmd[3] = "run"
  THEN [unit EXCEPT !.client = TRUE, !.engines = @ \cup GeneratedEngines]
  ELSE [unit EXCEPT !.binPrisma = FALSE]

\* runCommand(command, args, { cwd }); exit0 is the command's outcome
runCommand(m, command, args, cwd, exit0) ==
  IF m.err # NoError THEN m
  ELSE LET cmd  == CommandLine(command, args)
           m1   == Emit(m, "execSync", cwd, cmd)
       IN  IF exit0 /\ CanSucceed(m.fs, cwd, cmd)
           THEN [m1 EXCEPT !.fs.units[cwd] = ExecEffect(@, cmd)]
           ELSE Throw(m1, "CommandFailed")             \* execSync throws

\* the install with the configured version left out of the specifier
installPrismaPackage_NoVersion(m, sls, cwd, exit0) ==
  LET m1   == Log(m, cwd, "Installing prisma devDependencies...")
      m2   == managePackageScripts(m1, "add", cwd)
      args == << <<"install">>, <<"-D">>, <<"prisma">> >>
  IN  runCommand(m2, getPackageManager(sls), args, cwd, exit0)

\* the install that leaves the manifest alone
installPrismaPackage_NoScript(m, sls, cwd, exit0) ==
  LET m1          == Log(m, cwd, "Installing prisma devDependencies...")
      packageName == IF getPrismaVersion(sls) # ""
                     THEN << <<"prisma">>, <<getPrismaVersion(sls)>> >>
                     ELSE << <<"prisma">> >>
      args        == << <<"install">>, <<"-D">>, JoinStrings(packageName, "@") >>
  IN  runCommand(m1, getPackageManager(sls), args, cwd, exit0)

\* installPrismaPackage(cwd)
installPrismaPackage(m, sls, cwd, exit0) ==
  LET m1          == Log(m, cwd, "Installing prisma devDependencies...")
      m2          == managePackageScripts(m1, "add", cwd)
      packageName == IF getPrismaVersion(sls) # ""
                     THEN << <<"prisma">>, <<getPrismaVersion(sls)>> >>
                     ELSE << <<"prisma">> >>
      args        == << <<"install">>, <<"-D">>, JoinStrings(packageName, "@") >>
  IN  runCommand(m2, getPackageManager(sls), args, cwd, exit0)

\* the deletion without the force option: a missing directory is an error
RmModule_NoForce(m, cwd, module) ==
  IF m.err # NoError THEN m
  ELSE IF module = ".bin/prisma" /\ ~m.fs.units[cwd].binPrisma THEN Throw(m, "ENOENT")
  ELSE IF module = "prisma" /\ ~m.fs.units[cwd].modPrisma THEN Throw(m, "ENOENT")
  ELSE Emit([m EXCEPT !.fs.units[cwd] =
                 IF module = ".bin/prisma"
                 THEN [@ EXCEPT !.binPrisma = FALSE]
                 ELSE [@ EXCEPT !.modPrisma = FALSE,
                                !.engines = { f \in @ : f.dir # DirPrisma }]],
            "rmSync", cwd, <<"node_modules", module>>)

\* rmSync(path, { recursive: true, force: true }) on node_modules/<module>
RmModule(m, cwd, module) ==
  IF m.err # NoError THEN m
  ELSE Emit([m EXCEPT !.fs.units[cwd] =
                 IF module = ".bin/prisma"
                 THEN [@ EXCEPT !.binPrisma = FALSE]
                 ELSE [@ EXCEPT !.modPrisma = FALSE,
                                !.engines = { f \in @ : f.dir # DirPrisma }]],
            "rmSync", cwd, <<"node_modules", module>>)

\* deletePrismaDirectories(cwd)
deletePrismaDirectories(m, cwd) ==
  RmModule(RmModule(m, cwd, ".bin/prisma"), cwd, "prisma")

\* the removal that trusts the package manager to delete the tool
removePrismaPackage_NoDelete(m, sls, cwd, exit0) ==
  LET m1 == Log(m, cwd, "Removing prisma devDependencies...")
      m2 == managePackageScripts(m1, "remove", cwd)
  IN  runCommand(m2, getPackageManager(sls),
                 << <<"remove">>, <<"prisma">> >>, cwd, exit0)

\* the removal that runs the command before it unsets the script entry
removePrismaPackage_CommandFirst(m, sls, cwd, exit0) ==
  LET m1 == Log(m, cwd, "Removing prisma devDependencies...")
      m2 == runCommand(m1, getPackageManager(sls),
                       << <<"remove">>, <<"prisma">> >>, cwd, exit0)
      m3 == managePackageScripts(m2, "remove", cwd)
  IN  deletePrismaDirectories(m3, cwd)

\* removePrismaPackage(cwd)
removePrismaPackage(m, sls, cwd, exit0) ==
  LET m1 == Log(m, cwd, "Removing prisma devDependencies...")
      m2 == managePackageScripts(m1, "remove", cwd)
      m3 == runCommand(m2, getPackageManager(sls),
                       << <<"remove">>, <<"prisma">> >>, cwd, exit0)
  IN  deletePrismaDirectories(m3, cwd)

\* the copy without the existence test: the directory is always created
managePrismaSchema_AlwaysMkdir(m, action, cwd, prismaDir) ==
  LET relativePath == relative(cwd, prismaDir)
      target       == m.fs.units[cwd].prisma
  IN  IF action = "symlink"
      THEN LET m1 == Log(m, cwd, "Creating symlink for Prisma schema...")
           IN  IF target.kind # "absent"
               THEN Throw(m1, "EEXIST")
               ELSE Emit([m1 EXCEPT !.fs.units[cwd].prisma =
                            [kind |-> "symlink", schema |-> FALSE,
                             target |-> relativePath]],
                         "symlinkSync", cwd, relativePath)
      ELSE LET m1 == Log(m, cwd, "Copying Prisma schema...")
           IN  IF target.kind # "absent"
               THEN Throw(Emit(m1, "mkdirSync", cwd, <<"prisma">>), "EEXIST")
               ELSE IF ~m.fs.schemaSource
               THEN Throw(Emit([m1 EXCEPT !.fs.units[cwd].prisma =
                                  [kind |-> "dir", schema |-> FALSE, target |-> <<>>]],
                               "mkdirSync", cwd, <<"prisma">>), "ENOENT")
               ELSE Emit(Emit([m1 EXCEPT !.fs.units[cwd].prisma =
                                 [kind |-> "dir", schema |-> TRUE, target |-> <<>>]],
                              "mkdirSync", cwd, <<"prisma">>),
                         "cpSync", cwd, <<"prisma", "schema.prisma">>)

\* managePrismaSchema(action, cwd, prismaDir)
managePrismaSchema(m, action, cwd, prismaDir) ==
  LET relativePath == relative(cwd, prismaDir)
      target       == m.fs.units[cwd].prisma
  IN  IF action = "symlink"
      THEN LET m1 == Log(m, cwd, "Creating symlink for Prisma schema...")
           IN  IF target.kind # "absent"
               THEN Throw(m1, "EEXIST")                \* symlinkSync throws
               ELSE Emit([m1 EXCEPT !.fs.units[cwd].prisma =
                            [kind |-> "symlink", schema |-> FALSE,
                             target |-> relativePath]],
                         "symlinkSync", cwd, relativePath)
      ELSE LET m1 == Log(m, cwd, "Copying Prisma schema...")
               m2 == IF target.kind = "absent"          \* !existsSync(targetDir)
                     THEN Emit([m1 EXCEPT !.fs.units[cwd].prisma =
                                  [kind |-> "dir", schema |-> FALSE,
                                   target |-> <<>>]],
                               "mkdirSync", cwd, <<"prisma">>)
                     ELSE m1
           IN  IF ~m.fs.schemaSource
               THEN Throw(m2, "ENOENT")                \* cpSync: no source
               ELSE IF target.kind = "symlink"
               THEN Throw(m2, "EINVAL")                \* cpSync: src is dest
               ELSE Emit([m2 EXCEPT !.fs.units[cwd].prisma.schema = TRUE],
                         "cpSync", cwd, <<"prisma", "schema.prisma">>)

\* the generation started without its progress message
generatePrismaClient_NoLog(m, sls, cwd, exit0) ==
  runCommand(m, getPackageManager(sls), << <<"run">>, <<GenerateKey>> >>, cwd, exit0)

\* the generation that takes the script entry out again when its command fails
generatePrismaClient_CleanupOnFailure(m, sls, cwd, exit0) ==
  LET m1 == Log(m, cwd, "Generating Prisma client...")
      m2 == runCommand(m1, getPackageManager(sls),
                       << <<"run">>, <<GenerateKey>> >>, cwd, exit0)
  IN  IF m2.err = "CommandFailed"
      THEN Throw(managePackageScripts([m2 EXCEPT !.err = NoError], "remove", cwd),
                 "CommandFailed")
      ELSE m2

\* generatePrismaClient(cwd)
generatePrismaClient(m, sls, cwd, exit0) ==
  LET m1 == Log(m, cwd, "Generating Prisma client...")
  IN  runCommand(m1, getPackageManager(sls),
                 << <<"run">>, <<GenerateKey>> >>, cwd, exit0)

\* rmSync(enginePath, { force: true }) for each engine of the array
RECURSIVE RmEngines(_, _, _)
RmEngines(m, cwd, engines) ==
  IF engines = <<>> THEN m
  ELSE LET engine == Head(engines)
           m1     == Emit(m, "log", cwd, <<"  - ", engine.dir>> \o engine.name)
           m2     == Emit([m1 EXCEPT !.fs.units[cwd].engines = @ \ {engine}],
                          "rmSync", cwd,
                          <<"node_modules", engine.dir>> \o engine.name)
       IN  RmEngines(m2, cwd, Tail(engines))

\* deleteUnusedEngines(cwd)
deleteUnusedEngines(m, sls, cwd) ==
  LET engines == SetToSeq(globSync(getPrismaEngines(sls), m.fs.units[cwd].engines))
  IN  IF engines = <<>> THEN m
      ELSE RmEngines(Log(m, cwd, "Removing unused Prisma engines:"), cwd, engines)

----------------------------------------------------------------------------
(* The orchestrator: onBeforeWebpackPackage                                *)

\* join(join(this.getWebpackOutputPath(), '.webpack'), funcName)
UnitDir(sls, funcName) == join(join(getWebpackOutputPath(sls), ".webpack"), funcName)

\* join(this.getPrismaPath(), 'prisma')
PrismaDir(sls) == join(getPrismaPath(sls), "prisma")

SchemaAction(sls) == IF getUseSymlink(sls) THEN "symlink" ELSE "copy"

\* the loop with the generation moved before the schema placement
StepAfter_GenerateFirst(step, installDeps) ==
  CASE step = "start"    -> IF installDeps THEN "install" ELSE "generate"
    [] step = "install"  -> "generate"
    [] step = "generate" -> "schema"
    [] step = "schema"   -> "prune"
    [] step = "prune"    -> IF installDeps THEN "remove" ELSE "next"
    [] step = "remove"   -> "next"

\* the loop with the install and the remove run whatever install-deps says
StepAfter_AlwaysInstall(step, installDeps) ==
  CASE step = "start"    -> "install"
    [] step = "install"  -> "schema"
    [] step = "schema"   -> "generate"
    [] step = "generate" -> "prune"
    [] step = "prune"    -> "remove"
    [] step = "remove"   -> "next"

\* the body of the loop over the units: the step that follows `step` for one
\* unit ("start" before the first, "next" after the last)
StepAfter(step, installDeps) ==
  CASE step = "start"    -> IF installDeps THEN "install" ELSE "schema"
    [] step = "install"  -> "schema"
    [] step = "schema"   -> "generate"
    [] step = "generate" -> "prune"
    [] step = "prune"    -> IF installDeps THEN "remove" ELSE "next"
    [] step = "remove"   -> "next"

M == [fs |-> fs, trace |-> trace, err |-> err]

\* the working directory taken from the first unit for every unit
Cwd_FirstUnit == UnitDir(serverless, functions[1])

Cwd == UnitDir(serverless, functions[idx])

Called(m, cwd, method) == Emit(m, "call", cwd, <<method>>)

\* the loop with a failure confined to its unit: the next unit is processed
Advance_ContinueOnError(step, m) ==
  /\ fs' = m.fs
  /\ trace' = m.trace
  /\ err' = m.err
  /\ IF m.err = NoError /\ StepAfter(step, getInstallDeps(serverless)) # "next"
     THEN pc' = StepAfter(step, getInstallDeps(serverless)) /\ idx' = idx
     ELSE IF idx < Len(functions)
     THEN pc' = StepAfter("start", getInstallDeps(serverless)) /\ idx' = idx + 1
     ELSE pc' = (IF m.err # NoError THEN "failed" ELSE "done") /\ idx' = idx
  /\ UNCHANGED <<serverless, functions, runs>>

\* the loop moves on after a method returned, and ends on an exception
Advance(step, m) ==
  /\ fs' = m.fs
  /\ trace' = m.trace
  /\ err' = m.err
  /\ IF m.err # NoError
     THEN pc' = "failed" /\ idx' = idx
     ELSE IF StepAfter(step, getInstallDeps(serverless)) # "next"
     THEN pc' = StepAfter(step, getInstallDeps(serverless)) /\ idx' = idx
     ELSE IF idx < Len(functions)
     THEN pc' = StepAfter("start", getInstallDeps(serverless)) /\ idx' = idx + 1
     ELSE pc' = "done" /\ idx' = idx
  /\ UNCHANGED <<serverless, functions, runs>>

\* lines 253-257 and the loop's entry
Enter ==
  /\ pc = "idle"
  /\ functions' = getFunctionNames(serverless)
  /\ idx' = 1
  /\ pc' = IF getFunctionNames(serverless) = <<>>
           THEN "done"
           ELSE StepAfter("start", getInstallDeps(serverless))
  /\ trace' = <<>>
  /\ err' = NoError
  /\ runs' = runs + 1
  /\ UNCHANGED <<serverless, fs>>

Install ==
  /\ pc = "install"
  /\ \E exit0 \in BOOLEAN :
       Advance("install",
               installPrismaPackage(Called(M, Cwd, "installPrismaPackage"),
                                    serverless, Cwd, exit0))

Schema ==
  /\ pc = "schema"
  /\ Advance("schema",
             managePrismaSchema(Called(M, Cwd, "managePrismaSchema"),
                                SchemaAction(serverless), Cwd, PrismaDir(serverless)))

Generate ==
  /\ pc = "generate"
  /\ \E exit0 \in BOOLEAN :
       Advance("generate",
               generatePrismaClient(Called(M, Cwd, "generatePrismaClient"),
                                    serverless, Cwd, exit0))

Prune ==
  /\ pc = "prune"
  /\ Advance("prune",
             deleteUnusedEngines(Called(M, Cwd, "deleteUnusedEngines"),
                                 serverless, Cwd))

Remove ==
  /\ pc = "remove"
  /\ \E exit0 \in BOOLEAN :
       Advance("remove",
               removePrismaPackage(Called(M, Cwd, "removePrismaPackage"),
                                   serverless, Cwd, exit0))

Next == Enter \/ Install \/ Schema \/ Generate \/ Prune \/ Remove

----------------------------------------------------------------------------
(* Initial states: the service descriptors and the bundler's output        *)

StringHandler == Some([path |-> "src/handler.main", runtime |-> None])

PlainFunc == [handler |-> StringHandler, runtime |-> None, image |-> None]

NodeFunc == [handler |-> StringHandler, runtime |-> Some(StrNodejs), image |-> None]

PythonFunc == [handler |-> StringHandler, runtime |-> Some(StrPython), image |-> None]

ImageFunc == [handler |-> None, runtime |-> None, image |-> Some("dummy")]

ServicePath == <<"service", "path">>

BaseConfig ==
  [architecture |-> None, runtime |-> None, individually |-> None,
   packager |-> None, version |-> None, installDeps |-> None,
   useSymLinkForPrisma |-> None, dataProxy |-> None, ignoreFunctions |-> None,
   prismaPath |-> None, webpackOutputPath |-> None, servicePath |-> ServicePath,
   allFunctions |-> <<"fn1", "fn2">>,
   functionDefs |-> [fn1 |-> PlainFunc, fn2 |-> PlainFunc]]

\* the package.json the bundler writes into a unit
BundlerManifest ==
  [indent |-> 2,
   json |-> << [k |-> "name", v |-> Str("svc")],
               [k |-> "scripts", v |-> Obj(<<>>)],
               [k |-> "dependencies",
                v |-> Obj(<< [k |-> "@prisma/client", v |-> Str("5.0.0")] >>)] >>]

\* the same with a generation script of the user's own
ManifestWithScript ==
  [BundlerManifest EXCEPT
     !.json[2].v = Obj(<< [k |-> GenerateKey, v |-> Str("prisma generate --watch")] >>)]

\* a manifest with a build script and a generation script of the user's own
ManifestWithBuildScript ==
  [BundlerManifest EXCEPT
     !.json[2].v = Obj(<< [k |-> "build", v |-> Str("tsc")],
                          [k |-> GenerateKey, v |-> Str("prisma generate --watch")] >>)]

\* the service descriptors of the orchestrator's runs
HookConfigs ==
  { [BaseConfig EXCEPT !.architecture = a, !.installDeps = d,
                       !.useSymLinkForPrisma = l, !.individually = i,
                       !.ignoreFunctions = g, !.functionDefs.fn2 = f] :
      a \in {None, Some("arm64"), Some("armv7")},
      d \in {None, Some(FALSE)},
      l \in {None, Some(TRUE)},
      i \in {None, Some(TRUE)},
      g \in {None, Some(<<"fn2">>)},
      f \in {PlainFunc, PythonFunc, ImageFunc} }

UnitNames == {"service", "fn1", "fn2"}

\* every unit directory holds the same manifest (or none)
BundlerOutput(sls, manifest, schemaSource) ==
  [units |-> [d \in { UnitDir(sls, n) : n \in UnitNames } |-> UnitContent(manifest)],
   schemaSource |-> schemaSource]

Init ==
  /\ serverless \in { c \in HookConfigs :
                        c.individually = None =>
                          c.ignoreFunctions = None /\ c.functionDefs.fn2 = PlainFunc }
  /\ \E manifest \in {None, Some(BundlerManifest), Some(ManifestWithScript),
                     Some(ManifestWithBuildScript)},
        schemaSource \in BOOLEAN :
       fs = BundlerOutput(serverless, manifest, schemaSource)
  /\ pc = "idle"
  /\ functions = <<>>
  /\ idx = 1
  /\ trace = <<>>
  /\ err = NoError
  /\ runs = 0

Spec == Init /\ [][Next]_vars

----------------------------------------------------------------------------
(* The Function Selector called on its own: getFunctionNames()             *)

MaxFuncs == 2

FuncNames == {"fn1", "fn2", "fn3"}

\* an image function that also names a node runtime, its image reference empty
ImageNodeFunc == [handler |-> None, runtime |-> Some(StrNodejs), image |-> Some("")]

FuncDefs == {PlainFunc, NodeFunc, PythonFunc, ImageFunc, ImageNodeFunc}

\* the registries: up to MaxFuncs distinct names in any order
Registries ==
  { r \in UNION { [1..n -> FuncNames] : n \in 0..MaxFuncs } :
      \A i, j \in 1..Len(r) : i # j => r[i] # r[j] }

SelectorConfigs ==
  { [BaseConfig EXCEPT !.allFunctions = r, !.functionDefs = defs,
                       !.ignoreFunctions = g, !.runtime = rt, !.individually = i] :
      r \in Registries,
      defs \in [FuncNames -> FuncDefs],
      g \in {None, Some(<<"fn1">>), Some(<<"fn3", "fn2">>)},
      rt \in {None, Some(StrNodejs), Some(StrPython)},
      i \in {None, Some(TRUE), Some(FALSE)} }

InitSelector ==
  /\ serverless \in { c \in SelectorConfigs :
                        \A n \in FuncNames :
                          (\A k \in 1..Len(c.allFunctions) : c.allFunctions[k] # n)
                            => c.functionDefs[n] = PlainFunc }
  /\ fs = BundlerOutput(serverless, Some(BundlerManifest), TRUE)
  /\ pc = "getFunctionNames"
  /\ functions = <<>>
  /\ idx = 1
  /\ trace = <<>>
  /\ err = NoError
  /\ runs = 0

CallGetFunctionNames ==
  /\ pc = "getFunctionNames"
  /\ functions' = getFunctionNames(serverless)
  /\ pc' = "returned"
  /\ runs' = runs + 1
  /\ UNCHANGED <<serverless, fs, idx, trace, err>>

SpecSelector == InitSelector /\ [][CallGetFunctionNames]_vars

----------------------------------------------------------------------------
(* The Package-Script Manager called on its own: managePackageScripts      *)

MaxCalls == 2

MaxScripts == 2

ScriptEntries ==
  { [k |-> "build", v |-> Str("tsc")],
    [k |-> "test", v |-> Str("jest")],
    [k |-> GenerateKey, v |-> Str(GenerateCommand)],
    [k |-> GenerateKey, v |-> Str("prisma generate --watch")] }

\* the script tables: up to MaxScripts entries with distinct keys, in any order
ScriptTables ==
  { t \in UNION { [1..n -> ScriptEntries] : n \in 0..MaxScripts } :
      \A i, j \in 1..Len(t) : i # j => t[i].k # t[j].k }

NameEntry == [k |-> "name", v |-> Str("svc")]

DepsEntry ==
  [k |-> "dependencies", v |-> Obj(<< [k |-> "@prisma/client", v |-> Str("5.0.0")] >>)]

\* the manifests: with and without a scripts table, the table at any place
ManifestDocs ==
  { <<NameEntry>>, <<NameEntry, DepsEntry>> }
  \cup UNION { { <<NameEntry, [k |-> ScriptsKey, v |-> Obj(t)], DepsEntry>>,
                 << [k |-> ScriptsKey, v |-> Obj(t)], NameEntry>>,
                 <<NameEntry, DepsEntry, [k |-> ScriptsKey, v |-> Obj(t)]>> } :
               t \in ScriptTables }

ManifestTexts == { [indent |-> n, json |-> d] : n \in {2, 4}, d \in ManifestDocs }

ServiceDir == UnitDir(BaseConfig, "service")

InitScripts ==
  /\ serverless \in { [BaseConfig EXCEPT !.dataProxy = p] :
                        p \in {None, Some(TRUE), Some(FALSE)} }
  /\ \E manifest \in {None} \cup { Some(t) : t \in ManifestTexts } :
       fs = BundlerOutput(serverless, manifest, TRUE)
  /\ pc = "managePackageScripts"
  /\ functions = <<"service">>
  /\ idx = 1
  /\ trace = <<>>
  /\ err = NoError
  /\ runs = 0

CallManagePackageScripts ==
  /\ pc = "managePackageScripts"
  /\ runs < MaxCalls
  /\ \E action \in {"add", "remove"} :
       LET m == managePackageScripts(Called(M, ServiceDir, action), action, ServiceDir)
       IN  /\ fs' = m.fs
           /\ trace' = m.trace
           /\ err' = m.err
           /\ pc' = IF m.err # NoError THEN "failed" ELSE pc
  /\ runs' = runs + 1
  /\ UNCHANGED <<serverless, functions, idx>>

SpecScripts == InitScripts /\ [][CallManagePackageScripts]_vars

----------------------------------------------------------------------------
(* The Engine Pruner called on its own: deleteUnusedEngines                *)

MaxEngines == 2

Platforms == {PlatformRhel, PlatformArm, PlatformDebian}

\* engine files as the tool names them, <kind>-<platform>..., in the three
\* install locations; query-engine and prisma/schema-engine match no pattern
EngineUniverse ==
  { EngineFile(d, StrLibquery, pl) : d \in {DirClient, DirPrisma, DirEngines},
                                     pl \in Platforms }
  \cup { EngineFile(DirEngines, k, pl) :
           k \in {StrMigration, StrPrismaFmt, StrIntrospection, StrSchemaEngine,
                  StrQueryEngine},
           pl \in Platforms }
  \cup { EngineFile(DirPrisma, StrSchemaEngine, pl) : pl \in Platforms }

RECURSIVE SubsetsUpTo(_, _)
SubsetsUpTo(S, n) ==
  IF n = 0 THEN {{}}
  ELSE LET smaller == SubsetsUpTo(S, n - 1)
       IN  smaller \cup { T \cup {x} : T \in smaller, x \in S }

InitEngines ==
  /\ serverless \in { [BaseConfig EXCEPT !.architecture = a] :
                        a \in {None, Some("arm64"), Some("x86_64"), Some("armv7")} }
  /\ \E engines \in SubsetsUpTo(EngineUniverse, MaxEngines) :
       fs = [BundlerOutput(serverless, Some(BundlerManifest), TRUE)
               EXCEPT !.units[ServiceDir].engines = engines]
  /\ pc = "deleteUnusedEngines"
  /\ functions = <<"service">>
  /\ idx = 1
  /\ trace = <<>>
  /\ err = NoError
  /\ runs = 0

CallDeleteUnusedEngines ==
  /\ pc = "deleteUnusedEngines"
  /\ LET m == deleteUnusedEngines(Called(M, ServiceDir, "deleteUnusedEngines"),
                                  serverless, ServiceDir)
     IN  /\ fs' = m.fs
         /\ trace' = m.trace
         /\ err' = m.err
         /\ pc' = IF m.err # NoError THEN "failed" ELSE "returned"
  /\ runs' = runs + 1
  /\ UNCHANGED <<serverless, functions, idx>>

SpecEngines == InitEngines /\ [][CallDeleteUnusedEngines]_vars

----------------------------------------------------------------------------
(* Reading the state: what a run has done so far                           *)

Range(seq) == { seq[i] : i \in 1..Len(seq) }

\* the methods the orchestrator has called on a unit directory, in order
MethodCalls(cwd) ==
  LET calls == SelectSeq(trace, LAMBDA e : e.op = "call" /\ e.cwd = cwd)
  IN  [i \in 1..Len(calls) |-> calls[i].arg[1]]

\* the argument of the latest call
LastCall ==
  LET calls == SelectSeq(trace, LAMBDA e : e.op = "call")
  IN  IF calls = <<>> THEN <<>> ELSE calls[Len(calls)].arg

MutatingOps ==
  {"writeFileSync", "execSync", "symlinkSync", "mkdirSync", "cpSync", "rmSync"}

\* the side effects recorded between the k-th call on cwd and the next call
EffectsOfCall(cwd, k) ==
  LET at    == { i \in 1..Len(trace) : trace[i].op = "call" /\ trace[i].cwd = cwd }
      start == CHOOSE i \in at : Cardinality({ j \in at : j <= i }) = k
      later == { i \in 1..Len(trace) : i > start /\ trace[i].op = "call" }
      stop  == IF later = {} THEN Len(trace) + 1
               ELSE CHOOSE i \in later : \A j \in later : i <= j
  IN  SubSeq(trace, start + 1, stop - 1)

HasOp(events, op) == \E i \in 1..Len(events) : events[i].op = op

WasDeleted(cwd, file) ==
  \E i \in 1..Len(trace) :
    /\ trace[i].op = "rmSync"
    /\ trace[i].cwd = cwd
    /\ trace[i].arg = <<"node_modules", file.dir>> \o file.name

ScriptTable(doc) ==
  IF IsObject(ObjGet(doc, ScriptsKey)) THEN ObjGet(doc, ScriptsKey)[1].o ELSE <<>>

Keys(o) == { o[i].k : i \in 1..Len(o) }

----------------------------------------------------------------------------
(* Claims                                                                  *)

ExpectedCalls ==
  <<"installPrismaPackage", "managePrismaSchema", "generatePrismaClient",
    "deleteUnusedEngines", "removePrismaPackage">>

\* the side effect that ends each step, when the step has one
ClosingOps(method) ==
  CASE method = "installPrismaPackage" -> {"execSync"}
    [] method = "managePrismaSchema"   -> {"cpSync", "symlinkSync"}
    [] method = "generatePrismaClient" -> {"execSync"}
    [] OTHER                           -> {}

\* C1: with install-deps enabled, the methods called on a unit directory are
\* always a beginning of install, schema, generate, prune, remove in that
\* order; a step is called only after the step before it has performed its
\* closing side effect without an exception; and when the run is done every
\* selected unit has had exactly the five steps.
C1_StepOrder ==
  getInstallDeps(serverless) =>
    \A n \in UnitNames :
      LET cwd   == UnitDir(serverless, n)
          calls == MethodCalls(cwd)
      IN  /\ IsPrefix(calls, ExpectedCalls)
          /\ \A k \in 1..(Len(calls) - 1) :
               ClosingOps(calls[k]) # {} =>
                 \E op \in ClosingOps(calls[k]) : HasOp(EffectsOfCall(cwd, k), op)
          /\ (pc = "done" /\ n \in Range(functions)) => calls = ExpectedCalls

C1_Witness ==
  /\ pc = "done"
  /\ getInstallDeps(serverless)
  /\ functions = <<"fn1", "fn2">>
  /\ MethodCalls(UnitDir(serverless, "fn1")) = ExpectedCalls
  /\ MethodCalls(UnitDir(serverless, "fn2")) = ExpectedCalls

\* the platform identifier of a mapped architecture
MappedPrefix(arch) == (CHOOSE p \in getArchitectures : p[1] = arch)[2]

IsMapped(arch) == \E p \in getArchitectures : p[1] = arch

InclusionMatched(sls, file) ==
  \E i \in 1..Len(getPrismaEngines(sls)) :
    ~getPrismaEngines(sls)[i].neg /\ GlobMatches(getPrismaEngines(sls)[i], file)

EnginesNow == fs.units[ServiceDir].engines

\* C2: for a mapped architecture, after the Engine Pruner returned, no engine
\* file whose name carries the architecture's platform identifier has been
\* deleted (it is still there), and every other file that an inclusion
\* pattern matches is gone.
C2_PrunerKeepsTarget ==
  (pc = "returned" /\ IsMapped(getArchitecture(serverless))) =>
    \A f \in EngineUniverse :
      LET id == MappedPrefix(getArchitecture(serverless))
      IN  /\ Contains(f.name, id) => ~WasDeleted(ServiceDir, f)
          /\ ( /\ f \in EnginesNow \/ WasDeleted(ServiceDir, f)
               /\ InclusionMatched(serverless, f)
               /\ ~Contains(f.name, id) )
               => (WasDeleted(ServiceDir, f) /\ f \notin EnginesNow)

C2_Witness ==
  /\ pc = "returned"
  /\ getArchitecture(serverless) = "arm64"
  /\ EngineFile(DirClient, StrLibquery, PlatformArm) \in EnginesNow
  /\ WasDeleted(ServiceDir, EngineFile(DirEngines, StrSchemaEngine, PlatformRhel))

\* C3: for an architecture without a mapping entry the Engine Pruner ends
\* with an error and has deleted no engine file.
C3_UnmappedArchitectureFails ==
  (pc \in {"returned", "failed"} /\ ~IsMapped(getArchitecture(serverless))) =>
    /\ err # NoError
    /\ ~HasOp(trace, "rmSync")

\* C4: for an architecture without a mapping entry the orchestrator performs
\* no manifest write, no command, no schema placement and no deletion: the
\* run is aborted before any of them.
C4_UnmappedArchitectureAbortsFirst ==
  ~IsMapped(getArchitecture(serverless)) =>
    \A i \in 1..Len(trace) : trace[i].op \notin MutatingOps

GenerateScriptNow ==
  ObjGet(ScriptTable(JSONparse(fs.units[ServiceDir].manifest[1])), GenerateKey)

\* C5: after a successful 'add' the entry prisma:generate is "prisma generate"
\* when data-proxy is disabled or absent and "prisma generate --data-proxy"
\* when it is enabled.
C5_AddHonoursDataProxy ==
  (LastCall = <<"add">> /\ err = NoError) =>
    GenerateScriptNow =
      Some(Str(IF Get(serverless.dataProxy, FALSE)
               THEN "prisma generate --data-proxy"
               ELSE "prisma generate"))

\* the per-function runtime if set, else the provider's, else "node"
EffectiveRuntime(sls, func) ==
  IF func.runtime # None THEN func.runtime[1]
  ELSE IF sls.runtime # None THEN sls.runtime[1]
  ELSE StrNode

Individually == Get(serverless.individually, FALSE)

\* C6: under per-function packaging a function whose effective runtime does
\* not contain "node" is not selected, and a function without a runtime is
\* selected when the provider names no non-node runtime (and the function is
\* neither image-based nor ignored).
C6_RuntimeFilter ==
  (pc = "returned" /\ Individually) =>
    \A n \in Range(serverless.allFunctions) :
      LET func == getFunction(serverless, n)
      IN  /\ ~Contains(EffectiveRuntime(serverless, func), StrNode)
               => n \notin Range(functions)
          /\ ( /\ func.runtime = None
               /\ func.image = None
               /\ ~isFunctionIgnored(serverless, n)
               /\ Contains(EffectiveRuntime(serverless, func), StrNode) )
               => n \in Range(functions)

\* C7: under per-function packaging a function whose definition has an image
\* reference, of any value, is not selected, whatever the runtimes are.
C7_ImageExcluded ==
  (pc = "returned" /\ Individually) =>
    \A n \in Range(serverless.allFunctions) :
      getFunction(serverless, n).image # None => n \notin Range(functions)

C7_Witness ==
  /\ pc = "returned"
  /\ Individually
  /\ serverless.allFunctions = <<"fn2", "fn1">>
  /\ getFunction(serverless, "fn2") = ImageNodeFunc
  /\ serverless.runtime = Some(StrNodejs)
  /\ ~isFunctionIgnored(serverless, "fn2")
  /\ functions = <<"fn1">>

\* C8: under per-function packaging an ignored function is never selected,
\* and no operation of a run is performed on the working directory of an
\* ignored, image-based or non-node function.
C8_ExcludedUnitsUntouched ==
  Individually =>
    \A n \in Range(serverless.allFunctions) :
      LET func == getFunction(serverless, n)
      IN  /\ isFunctionIgnored(serverless, n) => n \notin Range(functions)
          /\ ( \/ isFunctionIgnored(serverless, n)
               \/ func.image # None
               \/ ~Contains(EffectiveRuntime(serverless, func), StrNode) )
               => \A i \in 1..Len(trace) : trace[i].cwd # UnitDir(serverless, n)

\* C9: without per-function packaging (the default) getFunctionNames returns
\* exactly <<"service">>, whatever the registry, the runtimes and the ignore
\* list hold; with it, exactly the registry filtered by the three tests.
C9_ServiceSentinel ==
  pc = "returned" =>
    IF serverless.individually = Some(TRUE)
    THEN functions =
           SelectSeq(serverless.allFunctions,
                     LAMBDA n : /\ ~isFunctionImage(getFunction(serverless, n))
                                /\ isRuntimeNode(serverless, getFunction(serverless, n))
                                /\ ~isFunctionIgnored(serverless, n))
    ELSE functions = <<"service">>

C9_Witness ==
  /\ pc = "returned"
  /\ serverless.individually = None
  /\ serverless.allFunctions = <<"fn1", "fn3">>
  /\ getFunction(serverless, "fn1") = ImageFunc
  /\ getFunction(serverless, "fn3") = PythonFunc
  /\ isFunctionIgnored(serverless, "fn1")
  /\ functions = <<"service">>

\* C10: a call of managePackageScripts leaves every manifest key other than
\* scripts, and every script entry other than prisma:generate, with the value
\* it had, adds no other key or entry, and after 'remove' the entry
\* prisma:generate is absent.
C10_ScriptsFrame ==
  [][ (runs' = runs + 1 /\ fs.units[ServiceDir].manifest # None) =>
        LET before == JSONparse(fs.units[ServiceDir].manifest[1])
            after  == JSONparse(fs'.units[ServiceDir].manifest[1])
        IN  /\ Keys(after) \ {ScriptsKey} = Keys(before) \ {ScriptsKey}
            /\ \A key \in Keys(before) \ {ScriptsKey} :
                 ObjGet(after, key) = ObjGet(before, key)
            /\ Keys(ScriptTable(after)) \ {GenerateKey}
                 = Keys(ScriptTable(before)) \ {GenerateKey}
            /\ \A key \in Keys(ScriptTable(before)) \ {GenerateKey} :
                 ObjGet(ScriptTable(after), key) = ObjGet(ScriptTable(before), key)
            /\ trace'[Len(trace) + 1].arg = <<"remove">>
                 => GenerateKey \notin Keys(ScriptTable(after)) ]_vars

C10_Witness ==
  /\ runs = 2
  /\ err = NoError
  /\ MethodCalls(ServiceDir) = <<"add", "remove">>
  /\ Keys(JSONparse(fs.units[ServiceDir].manifest[1])) = {"name", "dependencies", ScriptsKey}
  /\ Keys(ScriptTable(JSONparse(fs.units[ServiceDir].manifest[1]))) = {"build", "test"}

----------------------------------------------------------------------------
(* The hook run again on what an earlier run left behind                   *)

MaxRuns == 2

\* the host invokes the hook once more, after a run that ended or failed
Reenter ==
  /\ pc \in {"done", "failed"}
  /\ runs < MaxRuns
  /\ functions' = getFunctionNames(serverless)
  /\ idx' = 1
  /\ pc' = IF getFunctionNames(serverless) = <<>>
           THEN "done"
           ELSE StepAfter("start", getInstallDeps(serverless))
  /\ trace' = <<>>
  /\ err' = NoError
  /\ runs' = runs + 1
  /\ UNCHANGED <<serverless, fs>>

NextRerun == Next \/ Reenter

SpecRerun == Init /\ [][NextRerun]_vars

\* the errors that come from what is already on disk, not from this run
LeftoverErrors == {"EEXIST", "EINVAL"}

\* C11: in a run after the first, no step fails because of what the earlier
\* run left behind (a placed schema or symlink, an added script entry,
\* deleted directories or engines), in copy mode and in symlink mode.
C11_RerunSafe ==
  runs >= 2 => err \notin LeftoverErrors

\* the methods one unit gets, by the install-deps setting
StepsOf(installDeps) ==
  IF installDeps THEN ExpectedCalls ELSE SubSeq(ExpectedCalls, 2, 4)

\* the position of a unit directory in the selector's list
UnitIndex(cwd) ==
  CHOOSE i \in 1..Len(functions) : UnitDir(serverless, functions[i]) = cwd

\* the calls of the run so far go through the units in the selector's order,
\* a unit is begun only when the one before it has had all its steps, and
\* no method is called twice on a unit
SequentialUnits ==
  LET calls == SelectSeq(trace, LAMBDA e : e.op = "call")
  IN  /\ \A i \in 1..Len(calls) :
           \E j \in 1..Len(functions) :
             UnitDir(serverless, functions[j]) = calls[i].cwd
      /\ \A i, j \in 1..Len(calls) :
           i < j => /\ UnitIndex(calls[i].cwd) <= UnitIndex(calls[j].cwd)
                    /\ (calls[i].cwd = calls[j].cwd => calls[i].arg # calls[j].arg)
      /\ \A i \in 1..Len(calls) :
           \A u \in 1..(UnitIndex(calls[i].cwd) - 1) :
             MethodCalls(UnitDir(serverless, functions[u]))
               = StepsOf(getInstallDeps(serverless))

\* C12: the units are processed one after another in the selector's order,
\* and a failure ends the run: a step is taken only while nothing has failed,
\* a step that raises an error leaves the run failed on the same unit, and
\* no step is called a second time.
C12_AbortOnFailure ==
  [][ /\ err = NoError
      /\ pc # "failed"
      /\ (err' # NoError => pc' = "failed" /\ idx' = idx)
      /\ SequentialUnits' ]_vars

C12_Witness ==
  /\ pc = "failed"
  /\ err = "CommandFailed"
  /\ functions = <<"fn1", "fn2">>
  /\ LastCall = <<"generatePrismaClient">>
  /\ MethodCalls(UnitDir(serverless, "fn1"))
       = <<"installPrismaPackage", "managePrismaSchema", "generatePrismaClient">>
  /\ MethodCalls(UnitDir(serverless, "fn2")) = <<>>

\* the two directories the package manager's removal leaves behind
LeftoverDirs == { <<"node_modules", ".bin/prisma">>, <<"node_modules", "prisma">> }

\* an event of the package manager installing or removing a package
IsInstallOrRemove(e) ==
  e.op = "execSync" /\ Len(e.arg) >= 3 /\ e.arg[3] \in {"install", "remove"}

\* C13: with install-deps disabled, each selected unit gets schema placement,
\* generation and pruning, in that order and nothing else; no install or
\* remove command is issued, the manifest is never written, and neither
\* leftover directory is deleted.
C13_NoInstallDeps ==
  ~getInstallDeps(serverless) =>
    /\ \A n \in UnitNames :
         LET calls == MethodCalls(UnitDir(serverless, n))
         IN  /\ IsPrefix(calls, <<"managePrismaSchema", "generatePrismaClient",
                                  "deleteUnusedEngines">>)
             /\ (pc = "done" /\ n \in Range(functions)) =>
                  calls = <<"managePrismaSchema", "generatePrismaClient",
                            "deleteUnusedEngines">>
    /\ \A i \in 1..Len(trace) :
         /\ ~IsInstallOrRemove(trace[i])
         /\ trace[i].op # "writeFileSync"
         /\ trace[i].op = "rmSync" => trace[i].arg \notin LeftoverDirs

C13_Witness ==
  /\ ~getInstallDeps(serverless)
  /\ pc = "done"
  /\ functions = <<"fn1", "fn2">>
  /\ \A n \in {"fn1", "fn2"} :
       /\ MethodCalls(UnitDir(serverless, n))
            = <<"managePrismaSchema", "generatePrismaClient", "deleteUnusedEngines">>
       /\ \E i \in 1..Len(trace) :
            trace[i].op = "rmSync" /\ trace[i].cwd = UnitDir(serverless, n)

----------------------------------------------------------------------------
(* The tool's install and removal called on one unit directory             *)

MaxLifecycleCalls == 2

LifecycleConfigs ==
  { [BaseConfig EXCEPT !.packager = p, !.version = v] :
      p \in {None, Some("yarn")},
      v \in {None, Some("5.0.0"), Some("")} }

InitLifecycle ==
  /\ serverless \in LifecycleConfigs
  /\ \E manifest \in {None, Some(BundlerManifest), Some(ManifestWithScript)},
        bin \in BOOLEAN, mod \in BOOLEAN :
       fs = [BundlerOutput(serverless, manifest, TRUE) EXCEPT
               !.units[ServiceDir].binPrisma = bin,
               !.units[ServiceDir].modPrisma = mod]
  /\ pc = "lifecycle"
  /\ functions = <<"service">>
  /\ idx = 1
  /\ trace = <<>>
  /\ err = NoError
  /\ runs = 0

\* a method of the plugin returned m
Returned(m) ==
  /\ fs' = m.fs
  /\ trace' = m.trace
  /\ err' = m.err
  /\ pc' = IF m.err # NoError THEN "failed" ELSE pc
  /\ runs' = runs + 1
  /\ UNCHANGED <<serverless, functions, idx>>

CallInstallPrismaPackage ==
  /\ pc = "lifecycle"
  /\ runs < MaxLifecycleCalls
  /\ \E exit0 \in BOOLEAN :
       Returned(installPrismaPackage(Called(M, ServiceDir, "installPrismaPackage"),
                                     serverless, ServiceDir, exit0))

CallRemovePrismaPackage ==
  /\ pc = "lifecycle"
  /\ runs < MaxLifecycleCalls
  /\ \E exit0 \in BOOLEAN :
       Returned(removePrismaPackage(Called(M, ServiceDir, "removePrismaPackage"),
                                    serverless, ServiceDir, exit0))

CallDeletePrismaDirectories ==
  /\ pc = "lifecycle"
  /\ runs < MaxLifecycleCalls
  /\ Returned(deletePrismaDirectories(Called(M, ServiceDir, "deletePrismaDirectories"),
                                      ServiceDir))

NextLifecycle ==
  CallInstallPrismaPackage \/ CallRemovePrismaPackage \/ CallDeletePrismaDirectories

SpecLifecycle == InitLifecycle /\ [][NextLifecycle]_vars

\* the side effects among the events of a call
Mutations(events) == SelectSeq(events, LAMBDA e : e.op \in MutatingOps)

\* the command line the install is to issue for the configured package
\* manager and version
ExpectedInstall ==
  <<Get(serverless.packager, "npm"), " ", "install", " ", "-D", " ">>
    \o (IF serverless.version \in {None, Some("")}
        THEN <<"prisma">>
        ELSE <<"prisma", "@", serverless.version[1]>>)

\* C14: an install first writes the manifest with the script entry added and
\* then issues `<package manager> install -D <specifier>` in the unit
\* directory, the specifier being `prisma` without a configured version and
\* `prisma@<version>` with one; when the manifest cannot be read it does
\* neither.
C14_InstallCommand ==
  \A k \in 1..Len(MethodCalls(ServiceDir)) :
    MethodCalls(ServiceDir)[k] = "installPrismaPackage" =>
      LET muts == Mutations(EffectsOfCall(ServiceDir, k))
      IN  IF muts = <<>>
          THEN err = "ENOENT"
          ELSE /\ Len(muts) = 2
               /\ muts[1] = Ev("writeFileSync", ServiceDir, <<"package.json">>)
               /\ muts[2] = Ev("execSync", ServiceDir, ExpectedInstall)
               /\ k = Len(MethodCalls(ServiceDir)) =>
                    HasGenerateScript(fs.units[ServiceDir])

C14_Witness ==
  /\ serverless.version = Some("5.0.0")
  /\ serverless.packager = Some("yarn")
  /\ MethodCalls(ServiceDir) = <<"installPrismaPackage">>
  /\ err = NoError
  /\ HasOp(trace, "execSync")
  /\ fs.units[ServiceDir].modPrisma

\* the deletions among the events of a call
Deletions(events) == SelectSeq(events, LAMBDA e : e.op = "rmSync")

\* the deletion of the two leftover directories of a unit, in the code's order
BothLeftoversDeleted(cwd) ==
  << Ev("rmSync", cwd, <<"node_modules", ".bin/prisma">>),
     Ev("rmSync", cwd, <<"node_modules", "prisma">>) >>

\* C15: a removal that gets to its deletion (its manifest update and its
\* remove command did not throw), and every direct deletePrismaDirectories,
\* deletes node_modules/.bin/prisma and node_modules/prisma and nothing
\* else, whether or not they were there; a missing directory raises no
\* error, and afterwards neither directory exists.
C15_RemoveDeletesLeftovers ==
  LET calls == MethodCalls(ServiceDir)
  IN  \A k \in 1..Len(calls) :
        calls[k] \in {"removePrismaPackage", "deletePrismaDirectories"} =>
          LET rms    == Deletions(EffectsOfCall(ServiceDir, k))
              threw  == k = Len(calls) /\ err # NoError
          IN  /\ rms \in {<<>>, BothLeftoversDeleted(ServiceDir)}
              /\ calls[k] = "deletePrismaDirectories" => rms # <<>> /\ ~threw
              /\ ~threw => rms # <<>>
              /\ rms # <<>> => ~threw
              /\ (rms # <<>> /\ k = Len(calls)) =>
                   /\ ~fs.units[ServiceDir].binPrisma
                   /\ ~fs.units[ServiceDir].modPrisma

\* a removal on a unit whose two directories were already deleted
C15_Witness ==
  /\ MethodCalls(ServiceDir) = <<"deletePrismaDirectories", "removePrismaPackage">>
  /\ err = NoError
  /\ Deletions(EffectsOfCall(ServiceDir, 1)) = BothLeftoversDeleted(ServiceDir)
  /\ Deletions(EffectsOfCall(ServiceDir, 2)) = BothLeftoversDeleted(ServiceDir)

----------------------------------------------------------------------------
(* The schema placement called on one unit directory                       *)

MaxSchemaCalls == 2

SchemaConfigs ==
  { [BaseConfig EXCEPT !.prismaPath = s, !.webpackOutputPath = o] :
      s \in {None, Some(<<"service", "path", "db">>), Some(<<"repo", "db">>)},
      o \in {None, Some(<<"service", "path", "build">>)} }

\* what may stand at <unit>/prisma before the call
PrismaTargets ==
  { AbsentDir,
    [kind |-> "dir", schema |-> FALSE, target |-> <<>>],
    [kind |-> "dir", schema |-> TRUE, target |-> <<>>] }

SchemaCwd == UnitDir(serverless, "service")

InitSchema ==
  /\ serverless \in SchemaConfigs
  /\ \E target \in PrismaTargets, schemaSource \in BOOLEAN :
       fs = [BundlerOutput(serverless, Some(BundlerManifest), schemaSource) EXCEPT
               !.units[SchemaCwd].prisma = target]
  /\ pc = "managePrismaSchema"
  /\ functions = <<"service">>
  /\ idx = 1
  /\ trace = <<>>
  /\ err = NoError
  /\ runs = 0

CallManagePrismaSchema ==
  /\ pc = "managePrismaSchema"
  /\ runs < MaxSchemaCalls
  /\ \E action \in {"copy", "symlink"} :
       Returned(managePrismaSchema(
                  Emit(M, "call", SchemaCwd, <<"managePrismaSchema", action>>),
                  action, SchemaCwd, PrismaDir(serverless)))

SpecSchema == InitSchema /\ [][CallManagePrismaSchema]_vars

\* the directory a relative path names when followed from base
RECURSIVE Resolve(_, _)
Resolve(base, rel) ==
  IF rel = <<>> THEN base
  ELSE IF Head(rel) = ".." THEN Resolve(SubSeq(base, 1, Len(base) - 1), Tail(rel))
  ELSE Resolve(Append(base, Head(rel)), Tail(rel))

\* C16: a copy creates <unit>/prisma first when, and only when, it is absent,
\* then copies the schema file over whatever is there, and makes no symlink;
\* a symlink placement copies nothing and creates no directory: its one
\* effect is a symlink at <unit>/prisma whose target, followed from the unit
\* directory, is the schema source directory.
C16_SchemaPlacement ==
  [][ LET before == fs.units[SchemaCwd].prisma
          after  == fs'.units[SchemaCwd].prisma
          new    == SubSeq(trace', Len(trace) + 1, Len(trace'))
          muts   == Mutations(new)
      IN  IF new[1].arg[2] = "copy"
          THEN /\ before.kind = "absent" =>
                    muts # <<>> /\ muts[1] = Ev("mkdirSync", SchemaCwd, <<"prisma">>)
               /\ before.kind # "absent" => ~HasOp(muts, "mkdirSync")
               /\ ~HasOp(muts, "symlinkSync")
               /\ err' = NoError =>
                    /\ muts[Len(muts)]
                         = Ev("cpSync", SchemaCwd, <<"prisma", "schema.prisma">>)
                    /\ Len(muts) = (IF before.kind = "absent" THEN 2 ELSE 1)
                    /\ after = [kind |-> "dir", schema |-> TRUE, target |-> <<>>]
          ELSE /\ ~HasOp(muts, "cpSync")
               /\ ~HasOp(muts, "mkdirSync")
               /\ Len(muts) <= 1
               /\ err' = NoError =>
                    /\ Len(muts) = 1
                    /\ muts[1].op = "symlinkSync"
                    /\ Resolve(SchemaCwd, muts[1].arg) = PrismaDir(serverless)
                    /\ after.kind = "symlink"
                    /\ after.target = muts[1].arg
               /\ err' # NoError => muts = <<>> /\ after = before ]_vars

\* a copy into a unit without the directory, then a copy over the result
C16_Witness ==
  /\ Len(trace) = 7
  /\ trace[1].arg = <<"managePrismaSchema", "copy">>
  /\ trace[3].op = "mkdirSync"
  /\ trace[4].op = "cpSync"
  /\ trace[5].arg = <<"managePrismaSchema", "copy">>
  /\ trace[7].op = "cpSync"
  /\ fs.units[SchemaCwd].prisma.schema

\* a symlink for a schema source outside the service root
C16_SymlinkPlaced ==
  /\ Len(trace) = 3
  /\ trace[1].arg = <<"managePrismaSchema", "symlink">>
  /\ trace[3] = Ev("symlinkSync", SchemaCwd,
                   <<"..", "..", "..", "..", "repo", "db", "prisma">>)
  /\ fs.units[SchemaCwd].prisma.kind = "symlink"

\* the progress messages that name each step
StepMessages(method) ==
  CASE method = "installPrismaPackage" -> {"Installing prisma devDependencies..."}
    [] method = "managePrismaSchema"   -> {"Copying Prisma schema...",
                                           "Creating symlink for Prisma schema..."}
    [] method = "generatePrismaClient" -> {"Generating Prisma client..."}
    [] method = "deleteUnusedEngines"  -> {"Removing unused Prisma engines:"}
    [] method = "removePrismaPackage"  -> {"Removing prisma devDependencies..."}

\* the events since the latest call of a step
SinceLastCall ==
  LET at == { i \in 1..Len(trace) : trace[i].op = "call" }
  IN  IF at = {} THEN <<>>
      ELSE SubSeq(trace, (CHOOSE i \in at : \A j \in at : j <= i) + 1, Len(trace))

Logs(events) == SelectSeq(events, LAMBDA e : e.op = "log")

\* C17: a step that has any side effect has logged its progress message
\* before the first of them, and when the run has failed, the step that
\* failed has logged its message and no other step's message came after it.
C17_LogBeforeEffects ==
  /\ \A n \in UnitNames :
       LET cwd   == UnitDir(serverless, n)
           calls == MethodCalls(cwd)
       IN  \A k \in 1..Len(calls) :
             LET ev == EffectsOfCall(cwd, k)
             IN  /\ Mutations(ev) # <<>> =>
                      /\ ev[1].op = "log"
                      /\ ev[1].arg[1] \in StepMessages(calls[k])
                 /\ \A i \in 1..Len(ev) :
                      (ev[i].op = "log" /\ Len(ev[i].arg) = 1) =>
                        ev[i].arg[1] \in StepMessages(calls[k])
  /\ pc = "failed" =>
       /\ Logs(SinceLastCall) # <<>>
       /\ Logs(SinceLastCall)[1].arg[1] \in StepMessages(LastCall[1])

C17_Witness ==
  /\ pc = "failed"
  /\ idx = 2
  /\ LastCall = <<"generatePrismaClient">>
  /\ trace[Len(trace)].op = "execSync"
  /\ trace[Len(trace) - 1] = Ev("log", Cwd, <<"Generating Prisma client...">>)

----------------------------------------------------------------------------
(* The configuration accessors called on a configured service              *)

\* the accessors the plugin class defines
PluginAccessors ==
  {"getArchitecture", "getPackageManager", "getPrismaVersion", "getInstallDeps",
   "getUseSymlink", "getPrismaPath", "getWebpackOutputPath", "getIgnoredFunctions"}

\* the accessors the plugin's users and tests call
AccessorNames == PluginAccessors \cup {"getIsDataProxy"}

AccessorConfigs ==
  { [BaseConfig EXCEPT !.architecture = a, !.packager = p, !.version = v,
                       !.installDeps = d, !.useSymLinkForPrisma = l,
                       !.dataProxy = x, !.ignoreFunctions = g,
                       !.prismaPath = s, !.webpackOutputPath = o] :
      a \in {None, Some("arm64")},
      p \in {None, Some("yarn")},
      v \in {None, Some("5.0.0")},
      d \in {None, Some(FALSE)},
      l \in {None, Some(TRUE)},
      x \in {None, Some(TRUE)},
      g \in {None, Some(<<"fn2">>)},
      s \in {None, Some(<<"repo", "db">>)},
      o \in {None, Some(<<"service", "path", "build">>)} }

InitAccessors ==
  /\ serverless \in AccessorConfigs
  /\ fs = BundlerOutput(serverless, Some(BundlerManifest), TRUE)
  /\ pc = "accessor"
  /\ functions = <<"service">>
  /\ idx = 1
  /\ trace = <<>>
  /\ err = NoError
  /\ runs = 0

\* plugin[name](): the value a defined accessor returns
AccessorValue(sls, name) ==
  CASE name = "getArchitecture"      -> getArchitecture(sls)
    [] name = "getPackageManager"    -> getPackageManager(sls)
    [] name = "getPrismaVersion"     -> getPrismaVersion(sls)
    [] name = "getInstallDeps"       -> getInstallDeps(sls)
    [] name = "getUseSymlink"        -> getUseSymlink(sls)
    [] name = "getPrismaPath"        -> getPrismaPath(sls)
    [] name = "getWebpackOutputPath" -> getWebpackOutputPath(sls)
    [] name = "getIgnoredFunctions"  -> getIgnoredFunctions(sls)

\* a call of plugin[name](): a name the class does not define is not a
\* function, and the call throws
CallAccessor ==
  /\ pc = "accessor"
  /\ \E name \in AccessorNames :
       LET m0 == Called(M, ServicePath, name)
           m  == IF name \in PluginAccessors
                 THEN Emit(m0, "return", ServicePath,
                           <<AccessorValue(serverless, name)>>)
                 ELSE Throw(m0, "TypeError")
       IN  /\ trace' = m.trace
           /\ err' = m.err
           /\ pc' = IF m.err # NoError THEN "failed" ELSE "returned"
  /\ runs' = runs + 1
  /\ UNCHANGED <<serverless, fs, functions, idx>>

SpecAccessors == InitAccessors /\ [][CallAccessor]_vars

\* the value the user supplied for the setting an accessor reads
Supplied(name) ==
  CASE name = "getArchitecture"      -> serverless.architecture
    [] name = "getPackageManager"    -> serverless.packager
    [] name = "getPrismaVersion"     -> serverless.version
    [] name = "getInstallDeps"       -> serverless.installDeps
    [] name = "getUseSymlink"        -> serverless.useSymLinkForPrisma
    [] name = "getIsDataProxy"       -> serverless.dataProxy
    [] name = "getPrismaPath"        -> serverless.prismaPath
    [] name = "getWebpackOutputPath" -> serverless.webpackOutputPath
    [] name = "getIgnoredFunctions"  -> serverless.ignoreFunctions

\* the documented default of each setting
DocumentedDefault(name) ==
  CASE name = "getArchitecture"      -> "x86_64"
    [] name = "getPackageManager"    -> "npm"
    [] name = "getPrismaVersion"     -> ""
    [] name = "getInstallDeps"       -> TRUE
    [] name = "getUseSymlink"        -> FALSE
    [] name = "getIsDataProxy"       -> FALSE
    [] name = "getPrismaPath"        -> serverless.servicePath
    [] name = "getWebpackOutputPath" -> serverless.servicePath
    [] name = "getIgnoredFunctions"  -> <<>>

\* the call returned the supplied value, or the default when none was given
ReturnsSetting(name) ==
  /\ err = NoError
  /\ Len(trace) = 2
  /\ trace[2].op = "return"
  /\ trace[2].arg = (IF Supplied(name) # None
                     THEN Supplied(name)
                     ELSE <<DocumentedDefault(name)>>)

\* C18: every configuration accessor, the data-proxy one included, returns
\* the value the user supplied, and the documented default when none was
\* supplied.
C18_AccessorDefaults ==
  pc # "accessor" => ReturnsSetting(LastCall[1])

\* the entries of a unit directory the plugin's filesystem calls name
UnitEntries == {"package.json", "prisma", "node_modules"}

\* C19: a step on a unit changes nothing outside that unit's directory: every
\* command runs in it and every filesystem call names an entry of it, and
\* the other unit directories (manifest, schema directory, installed tool,
\* engines) and the schema source are left as they were.
C19_UnitFrame ==
  [][ IF pc = "idle" THEN fs' = fs
      ELSE LET cwd == UnitDir(serverless, functions[idx])
           IN  /\ \A d \in DOMAIN fs.units :
                    d # cwd => fs'.units[d] = fs.units[d]
               /\ fs'.schemaSource = fs.schemaSource
               /\ \A i \in (Len(trace) + 1)..Len(trace') :
                    /\ trace'[i].cwd = cwd
                    /\ trace'[i].op \in (MutatingOps \ {"execSync", "symlinkSync"})
                         => trace'[i].arg[1] \in UnitEntries ]_vars

\* the second unit is being processed after the first was completed
C19_Witness ==
  /\ functions = <<"fn1", "fn2">>
  /\ idx = 2
  /\ pc = "prune"
  /\ fs.units[UnitDir(serverless, "fn1")].client
  /\ fs.units[UnitDir(serverless, "fn2")].client
  /\ fs.units[UnitDir(serverless, "fn1")].engines
       # fs.units[UnitDir(serverless, "fn2")].engines
  /\ fs.units[UnitDir(serverless, "service")] = UnitContent(Some(BundlerManifest))

\* sub can be had from seq by leaving elements out
RECURSIVE IsSubsequence(_, _)
IsSubsequence(sub, seq) ==
  IF sub = <<>> THEN TRUE
  ELSE IF seq = <<>> THEN FALSE
  ELSE IF Head(sub) = Head(seq) THEN IsSubsequence(Tail(sub), Tail(seq))
  ELSE IsSubsequence(sub, Tail(seq))

\* C20: under per-function packaging the selector's list is a subsequence
\* of the registry's enumeration: only registered names, each at most once,
\* in the registry's relative order.
C20_SelectorSubsequence ==
  (pc = "returned" /\ Individually) =>
    /\ IsSubsequence(functions, serverless.allFunctions)
    /\ \A i, j \in 1..Len(functions) : i # j => functions[i] # functions[j]
    /\ Range(functions) \subseteq Range(serverless.allFunctions)

\* both functions of a registry that is not in alphabetical order are selected
C20_Witness ==
  /\ pc = "returned"
  /\ Individually
  /\ serverless.allFunctions = <<"fn3", "fn1">>
  /\ functions = <<"fn3", "fn1">>

\* the schema placement of this run on a unit has happened
SchemaPlaced(cwd) ==
  \E i \in 1..Len(trace) :
    trace[i].cwd = cwd /\ trace[i].op \in {"cpSync", "symlinkSync"}

\* what the placement of this run put at <unit>/prisma is there: the copied
\* schema file, or the symlink
StillPlaced(cwd) ==
  \A i \in 1..Len(trace) :
    trace[i].cwd = cwd =>
      /\ trace[i].op = "cpSync" =>
           fs.units[cwd].prisma.kind = "dir" /\ fs.units[cwd].prisma.schema
      /\ trace[i].op = "symlinkSync" =>
           /\ fs.units[cwd].prisma.kind = "symlink"
           /\ fs.units[cwd].prisma.target = trace[i].arg

\* C21: when the install command or the generation command of a unit fails
\* with install-deps enabled, the run ends with the prisma:generate entry
\* still in that unit's manifest, with no removal called and no leftover
\* directory deleted on that unit, and with the schema the run placed on it
\* still there.
C21_NoCleanupOnFailure ==
  ( /\ pc = "failed"
    /\ err = "CommandFailed"
    /\ getInstallDeps(serverless)
    /\ LastCall[1] \in {"installPrismaPackage", "generatePrismaClient"} ) =>
      /\ HasGenerateScript(fs.units[Cwd])
      /\ \A k \in 1..Len(MethodCalls(Cwd)) : MethodCalls(Cwd)[k] # "removePrismaPackage"
      /\ \A i \in 1..Len(trace) :
           (trace[i].cwd = Cwd /\ trace[i].op = "rmSync") =>
             trace[i].arg \notin LeftoverDirs
      /\ SchemaPlaced(Cwd) => StillPlaced(Cwd)
      /\ LastCall[1] = "generatePrismaClient" =>
           SchemaPlaced(Cwd) /\ fs.units[Cwd].modPrisma

\* the generation of the second unit failed after its install and its schema
C21_Witness ==
  /\ pc = "failed"
  /\ err = "CommandFailed"
  /\ getInstallDeps(serverless)
  /\ LastCall = <<"generatePrismaClient">>
  /\ idx = 2
  /\ HasGenerateScript(fs.units[Cwd])
  /\ fs.units[Cwd].prisma.kind = "dir"
  /\ fs.units[Cwd].prisma.schema
  /\ fs.units[Cwd].binPrisma

\* the install command of this run was issued in cwd and exited with 0
InstallSucceeded(cwd) ==
  /\ \E i \in 1..Len(trace) :
       /\ trace[i].cwd = cwd
       /\ trace[i].op = "execSync"
       /\ trace[i].arg[3] = "install"
       /\ (i = Len(trace) => err = NoError)
  /\ fs.units[cwd].binPrisma
  /\ fs.units[cwd].modPrisma

\* C22: with install-deps enabled, when the generation of a unit is about to
\* be run, and until its pruning has returned, the unit's manifest holds the
\* prisma:generate entry and the unit's install command has exited with 0;
\* the generation step issues `<package manager> run prisma:generate`.
C22_ScriptAtGeneration ==
  [][ (getInstallDeps(serverless) /\ pc \in {"generate", "prune"}) =>
        LET cwd == UnitDir(serverless, functions[idx])
        IN  /\ HasGenerateScript(fs.units[cwd])
            /\ InstallSucceeded(cwd)
            /\ HasGenerateScript(fs'.units[cwd])
            /\ pc = "generate" =>
                 trace'[Len(trace')]
                   = Ev("execSync", cwd,
                        <<getPackageManager(serverless), " ", "run", " ", GenerateKey>>)
    ]_vars

\* the pruning of a unit is about to run after its generation succeeded
C22_Witness ==
  /\ getInstallDeps(serverless)
  /\ pc = "prune"
  /\ functions = <<"service">>
  /\ HasGenerateScript(fs.units[Cwd])
  /\ fs.units[Cwd].client
  /\ trace[Len(trace)].op = "execSync"
  /\ trace[Len(trace)].arg[3] = "run"

\* the manifest that began as ManifestWithBuildScript, its generation
\* script taken out
BuildScriptOnly ==
  [BundlerManifest EXCEPT !.json[2].v = Obj(<< [k |-> "build", v |-> Str("tsc")] >>)]

\* C23: when a run with install-deps enabled is done, every processed unit
\* has a manifest without the prisma:generate entry, neither
\* node_modules/.bin/prisma nor node_modules/prisma, and its schema in
\* place; a prisma:generate entry the manifest had before the run is gone
\* too, the other scripts being kept.
C23_CleanAfterRun ==
  (pc = "done" /\ getInstallDeps(serverless)) =>
    \A k \in 1..Len(functions) :
      LET unit == fs.units[UnitDir(serverless, functions[k])]
      IN  /\ unit.manifest # None
          /\ ~HasGenerateScript(unit)
          /\ unit.manifest[1] \in {BundlerManifest, BuildScriptOnly}
          /\ ~unit.binPrisma
          /\ ~unit.modPrisma
          /\ SchemaInPlace(fs, UnitDir(serverless, functions[k]))

\* two units whose manifests had a generation script of the user's before
C23_Witness ==
  /\ pc = "done"
  /\ getInstallDeps(serverless)
  /\ functions = <<"fn1", "fn2">>
  /\ \A n \in {"fn1", "fn2"} :
       /\ fs.units[UnitDir(serverless, n)].manifest = Some(BuildScriptOnly)
       /\ fs.units[UnitDir(serverless, n)].client
  /\ fs.units[UnitDir(serverless, "service")].manifest = Some(ManifestWithBuildScript)

\* the command line of the removal for the configured package manager
ExpectedRemove ==
  <<Get(serverless.packager, "npm"), " ", "remove", " ", "prisma">>

\* C24: a removal writes the manifest with the script entry unset, then runs
\* `<package manager> remove prisma`, then deletes the two leftover
\* directories, in that order; when the command fails the manifest has
\* already lost the entry and no directory is deleted.
C24_RemoveOrder ==
  LET calls == MethodCalls(ServiceDir)
  IN  \A k \in 1..Len(calls) :
        calls[k] = "removePrismaPackage" =>
          LET muts  == Mutations(EffectsOfCall(ServiceDir, k))
              threw == k = Len(calls) /\ err # NoError
          IN  IF muts = <<>>
              THEN err = "ENOENT"
              ELSE /\ Len(muts) >= 2
                   /\ muts[1] = Ev("writeFileSync", ServiceDir, <<"package.json">>)
                   /\ muts[2] = Ev("execSync", ServiceDir, ExpectedRemove)
                   /\ IF threw
                      THEN /\ err = "CommandFailed"
                           /\ Len(muts) = 2
                           /\ ~HasGenerateScript(fs.units[ServiceDir])
                      ELSE SubSeq(muts, 3, Len(muts)) = BothLeftoversDeleted(ServiceDir)

\* the remove command failed after an install: the tool is still there, the
\* script entry is not
C24_Witness ==
  /\ MethodCalls(ServiceDir) = <<"installPrismaPackage", "removePrismaPackage">>
  /\ err = "CommandFailed"
  /\ trace[Len(trace)] = Ev("execSync", ServiceDir, ExpectedRemove)
  /\ ~HasGenerateScript(fs.units[ServiceDir])
  /\ fs.units[ServiceDir].binPrisma
  /\ fs.units[ServiceDir].modPrisma

\* the manifest text has a scripts table, and no prisma:generate entry in it
HasTableWithoutEntry(text) ==
  /\ IsObject(ObjGet(JSONparse(text), ScriptsKey))
  /\ GenerateKey \notin Keys(ScriptTable(JSONparse(text)))

\* applying an action twice gives the text that applying it once gives
IdempotentOn(text) ==
  \A action \in {"add", "remove"} :
    managePackageScriptsText(action, managePackageScriptsText(action, text))
      = managePackageScriptsText(action, text)

\* C25 as stated: on every manifest the script manager reads, each action
\* is idempotent, and when the manifest has a scripts table without the
\* prisma:generate entry, 'add' followed by 'remove' gives back the text
\* that was read.
C25_RoundTripText ==
  fs.units[ServiceDir].manifest # None =>
    LET text == fs.units[ServiceDir].manifest[1]
    IN  /\ IdempotentOn(text)
        /\ HasTableWithoutEntry(text) =>
             managePackageScriptsText("remove", managePackageScriptsText("add", text))
               = text

\* C25, amended: each action is idempotent, and on a manifest that has a
\* scripts table without the prisma:generate entry, 'add' followed by
\* 'remove' gives a text that parses to the document that was read, with
\* the same keys in the same order, serialized with an indentation of two:
\* it is the text that was read only when that text had this layout.
C25_RoundTripDocument ==
  fs.units[ServiceDir].manifest # None =>
    LET text == fs.units[ServiceDir].manifest[1]
        back == managePackageScriptsText("remove",
                                         managePackageScriptsText("add", text))
    IN  /\ IdempotentOn(text)
        /\ HasTableWithoutEntry(text) =>
             /\ JSONparse(back) = JSONparse(text)
             /\ back = JSONstringify(JSONparse(text), 2)
             /\ (back = text) = (text.indent = 2)

\* 'add' then 'remove' have been called on a manifest whose scripts table,
\* its first key, holds two other scripts and no prisma:generate entry; the
\* text now has the layout the script manager writes
C25_Witness ==
  /\ MethodCalls(ServiceDir) = <<"add", "remove">>
  /\ err = NoError
  /\ fs.units[ServiceDir].manifest[1].indent = 2
  /\ HasTableWithoutEntry(fs.units[ServiceDir].manifest[1])
  /\ Keys(ScriptTable(JSONparse(fs.units[ServiceDir].manifest[1]))) = {"test", "build"}
  /\ JSONparse(fs.units[ServiceDir].manifest[1])[1].k = ScriptsKey

====
